---- MODULE Spec2Model ----
(***************************************************************************)
(* Resumable batch-labeling pipeline (src/src/label_batch.py, utils.py,    *)
(* schemas.py): the orchestrator main(), the prediction ledger it keeps    *)
(* (append-only predictions.jsonl, snapshot predictions.csv) and the       *)
(* batcher chunked().                                                      *)
(***************************************************************************)
EXTENDS Integers, Sequences, FiniteSets, TLC

\* ------------------------------------------------------------------ bounds
\* Rows of the source dataset (ids 1..NumRecords).
NumRecords == 2
\* Longest results array the classifier returns in one response.
MaxResults == 2
\* Invocations of main() in one behaviour.
MaxRuns == 3
\* Longest append-only log (lines of predictions.jsonl).
MaxLog == 3
\* BATCH_SIZE ranges over 1..MaxBatchSize, DAILY_CALL_CAP over 0..MaxCallCap.
MaxBatchSize == 2
MaxCallCap == 2
\* chunked() alone: longest input list, largest |n|.
MaxSeqLen == 4
MaxChunkSize == 3
\* _compute_priority_targets() alone: most rows of one priority, largest n.
MaxCount == 3
MaxQuotaN == 10
\* build_demo_examples.main(): most rows of the sample CSV (ids 1..MaxPop);
\* N_EXAMPLES ranges over 1..MaxExamples.
MaxPop == 4
MaxExamples == 4

VARIABLES
    pc,             \* where main() is: idle | loop | merge | exit | crashed
    runs,           \* invocations of main() so far
    BATCH_SIZE,     \* label_batch.py:22 (a configuration value, fixed per behaviour)
    DAILY_CALL_CAP, \* label_batch.py:21
    pred_csv,       \* predictions.csv: [exists, rows]
    pred_jsonl,     \* predictions.jsonl: the lines appended so far
    todo,           \* rows of df whose id is not in done_ids
    batches,        \* list(chunked(payload_rows, BATCH_SIZE))
    batch_i,        \* position of the for loop in batches (1-based)
    calls_made,
    all_records,
    records,        \* the results of the latest accepted response
    printed,        \* messages main() has printed in this run
    seq, n,         \* chunked(): its arguments
    chunk_out,      \* chunked(): [status, groups]
    counts, quota_n,\* _compute_priority_targets(): value_counts() of its df, and n
    targets_out,    \* _compute_priority_targets(): [status, targets]
    sample_df,      \* build_demo_examples.main(): the rows of the sample CSV
    predictions_ids,\* ... the ids of predictions.csv
    N_EXAMPLES,     \* build_demo_examples.py:13 (fixed per behaviour)
    demo_pc,        \* ... start | raised | saved
    demo_csv        \* demo_examples.csv: [exists, rows]

vars == <<pc, runs, BATCH_SIZE, DAILY_CALL_CAP, pred_csv, pred_jsonl, todo,
          batches, batch_i, calls_made, all_records, records, printed,
          seq, n, chunk_out, counts, quota_n, targets_out,
          sample_df, predictions_ids, N_EXAMPLES, demo_pc, demo_csv>>
mainVars == <<pc, runs, BATCH_SIZE, DAILY_CALL_CAP, pred_csv, pred_jsonl, todo,
              batches, batch_i, calls_made, all_records, records, printed>>
chunkVars == <<seq, n, chunk_out>>
quotaVars == <<counts, quota_n, targets_out>>
curatorVars == <<sample_df, predictions_ids, N_EXAMPLES, demo_pc, demo_csv>>

Min(a, b) == IF a < b THEN a ELSE b

\* ------------------------------------------------------------ source data
\* df after clean_text(load_csv(DATA)): one row per id; the timestamp and the
\* comment only travel into the request and are left out.
SourcePriority(i) == IF i = 1 THEN "High" ELSE "Low"
SourceCategory(i) == "Plumbing"
df == [i \in 1..NumRecords |->
         [id |-> i, Priority |-> SourcePriority(i), Service_Category |-> SourceCategory(i)]]

allowed_priorities == {df[i].Priority : i \in DOMAIN df}
allowed_categories == {df[i].Service_Category : i \in DOMAIN df}

\* predictions.jsonl and predictions.csv start absent.
NoFile == [exists |-> FALSE, rows |-> <<>>]

\* ---------------------------------------------------------------- schemas
\* What BatchResponse.model_validate_json accepts: any list of LabeledRequest,
\* id an int, Priority and Service_Category any str. The classifier's strings
\* are drawn from ClassifierLabels: one label inside both allowed sets, one
\* whose Priority and Service_Category are in neither.
ClassifierLabels ==
    { <<"High", "Plumbing">>, <<"Urgent", "Misc">> }
LabeledRequest ==
    { [id |-> i, Priority |-> l[1], Service_Category |-> l[2]] :
        i \in 1..NumRecords, l \in ClassifierLabels }

RECURSIVE SeqsUpTo(_, _)
SeqsUpTo(S, k) ==
    IF k = 0 THEN { <<>> }
    ELSE LET shorter == SeqsUpTo(S, k - 1)
         IN  shorter \cup { Append(s, x) : s \in shorter, x \in S }

BatchResponse == SeqsUpTo(LabeledRequest, MaxResults)

\* ------------------------------------------------------------------ utils
IdsOf(rows) == { rows[i].id : i \in DOMAIN rows }

\* A mutant of read_done_ids: the snapshot is never read back.
read_done_ids_none(csv) == {}
\* Missing file: nothing done; else the ids of its rows. (A file that cannot be
\* parsed also reads as nothing done; the runs modelled here never write one.)
read_done_ids(csv) == IF ~csv.exists THEN {} ELSE IdsOf(csv.rows)

\* for i in range(0, len(seq), n): yield seq[i:i+n], for n > 0.
RECURSIVE ChunkFrom(_, _, _)
ChunkFrom(s, size, i) ==
    IF i >= Len(s) THEN <<>>
    ELSE <<SubSeq(s, i + 1, Min(i + size, Len(s)))>> \o ChunkFrom(s, size, i + size)

RECURSIVE ChunkFromShort(_, _, _)
ChunkFromShort(s, size, i) ==
    IF i + size > Len(s) THEN <<>>
    ELSE <<SubSeq(s, i + 1, i + size)>> \o ChunkFromShort(s, size, i + size)

\* A mutant of chunked: the trailing partial group is dropped.
chunked_drop_tail(s, size) == IF size < 0 THEN <<>> ELSE ChunkFromShort(s, size, 0)
\* range(0, len, n) is empty for n < 0 (and raises ValueError for n = 0: see
\* ChunkRaises).
chunked(s, size) == IF size < 0 THEN <<>> ELSE ChunkFrom(s, size, 0)

\* ------------------------------------------------------------ label_batch
\* A mutant of QuotaReached: the cap is tested one call late.
QuotaReachedLate(calls) == calls > DAILY_CALL_CAP
\* if calls_made >= DAILY_CALL_CAP: break
QuotaReached(calls) == calls >= DAILY_CALL_CAP

payload_rows(rows) == [i \in DOMAIN rows |-> [id |-> rows[i].id]]

\* DataFrame.drop_duplicates(subset=["id"]): keep defaults to "first".
RECURSIVE drop_duplicates(_)
drop_duplicates(rows) ==
    IF rows = <<>> THEN <<>>
    ELSE LET init == drop_duplicates(SubSeq(rows, 1, Len(rows) - 1))
             last == rows[Len(rows)]
         IN  IF last.id \in IdsOf(init) THEN init ELSE Append(init, last)

\* The frame main() writes to predictions.csv.
combined(csv, pred_df) ==
    IF csv.exists THEN drop_duplicates(csv.rows \o pred_df) ELSE pred_df

\* chunked() not called.
ChunkIdle ==
    /\ seq = <<>>
    /\ n = 1
    /\ chunk_out = [status |-> "none", groups |-> <<>>]

\* _compute_priority_targets() not called.
QuotaIdle ==
    /\ counts = <<>>
    /\ quota_n = 0
    /\ targets_out = [status |-> "none", targets |-> <<>>]

\* build_demo_examples.main() not started, no sample, no demo file.
CuratorIdle ==
    /\ sample_df = <<>>
    /\ predictions_ids = {}
    /\ N_EXAMPLES = 0
    /\ demo_pc = "start"
    /\ demo_csv = NoFile

\* Both files absent, no run made yet; the two configuration values are the
\* caller's choice.
InitMain(sizes, caps) ==
    /\ pc = "idle"
    /\ runs = 0
    /\ BATCH_SIZE \in sizes
    /\ DAILY_CALL_CAP \in caps
    /\ pred_csv = NoFile
    /\ pred_jsonl = <<>>
    /\ todo = <<>>
    /\ batches = <<>>
    /\ batch_i = 1
    /\ calls_made = 0
    /\ all_records = <<>>
    /\ records = <<>>
    /\ printed = {}

Init ==
    /\ InitMain(1..MaxBatchSize, 0..MaxCallCap)
    /\ ChunkIdle
    /\ QuotaIdle
    /\ CuratorIdle

\* main(), lines 62-75: a new process; compute the pending rows, return when
\* there are none, else build the batches.
StartRun ==
    /\ pc \in {"idle", "exit", "crashed"}
    /\ runs < MaxRuns
    /\ runs' = runs + 1
    /\ LET done_ids == read_done_ids(pred_csv)
           t == SelectSeq(df, LAMBDA r : r.id \notin done_ids)
       IN  /\ todo' = t
           /\ IF Len(t) = 0
              THEN /\ printed' = {"already_all"}
                   /\ batches' = <<>>
                   /\ pc' = "exit"
              ELSE /\ printed' = {}
                   /\ batches' = chunked(payload_rows(t), BATCH_SIZE)
                   /\ pc' = "loop"
    /\ batch_i' = 1
    /\ calls_made' = 0
    /\ all_records' = <<>>
    /\ records' = <<>>
    /\ UNCHANGED <<BATCH_SIZE, DAILY_CALL_CAP, pred_csv, pred_jsonl>>
    /\ UNCHANGED <<chunkVars, quotaVars, curatorVars>>

\* Lines 77-80: the cap is reached with batches left.
LoopBreak ==
    /\ pc = "loop"
    /\ batch_i <= Len(batches)
    /\ QuotaReached(calls_made)
    /\ printed' = printed \cup {"cap_reached"}
    /\ pc' = "merge"
    /\ UNCHANGED <<runs, BATCH_SIZE, DAILY_CALL_CAP, pred_csv, pred_jsonl, todo,
                   batches, batch_i, calls_made, all_records, records>>
    /\ UNCHANGED <<chunkVars, quotaVars, curatorVars>>

\* Lines 77-77: the for loop runs out of batches.
LoopEnd ==
    /\ pc = "loop"
    /\ batch_i > Len(batches)
    /\ pc' = "merge"
    /\ UNCHANGED <<runs, BATCH_SIZE, DAILY_CALL_CAP, pred_csv, pred_jsonl, todo,
                   batches, batch_i, calls_made, all_records, records, printed>>
    /\ UNCHANGED <<chunkVars, quotaVars, curatorVars>>

\* Lines 82-89: one call whose response parses as a BatchResponse; its results
\* are appended to predictions.jsonl and to all_records.
LabelBatch ==
    /\ pc = "loop"
    /\ batch_i <= Len(batches)
    /\ ~QuotaReached(calls_made)
    /\ \E out \in BatchResponse :
         /\ Len(pred_jsonl) + Len(out) <= MaxLog
         /\ records' = out
         /\ pred_jsonl' = pred_jsonl \o out
         /\ all_records' = all_records \o out
    /\ calls_made' = calls_made + 1
    /\ batch_i' = batch_i + 1
    /\ UNCHANGED <<pc, runs, BATCH_SIZE, DAILY_CALL_CAP, pred_csv, todo, batches, printed>>
    /\ UNCHANGED <<chunkVars, quotaVars, curatorVars>>

\* Lines 33-42: generate_content or model_validate_json raises (an API error, a
\* response that is not JSON of the BatchResponse shape); main() does not catch
\* it, so the process ends with nothing of this batch appended.
LabelRaises ==
    /\ pc = "loop"
    /\ batch_i <= Len(batches)
    /\ ~QuotaReached(calls_made)
    /\ pc' = "crashed"
    /\ UNCHANGED <<runs, BATCH_SIZE, DAILY_CALL_CAP, pred_csv, pred_jsonl, todo,
                   batches, batch_i, calls_made, all_records, records, printed>>
    /\ UNCHANGED <<chunkVars, quotaVars, curatorVars>>

\* The process is killed (during limiter.wait(), line 89, or before the merge).
Interrupt ==
    /\ pc \in {"loop", "merge"}
    /\ calls_made > 0
    /\ pc' = "crashed"
    /\ UNCHANGED <<runs, BATCH_SIZE, DAILY_CALL_CAP, pred_csv, pred_jsonl, todo,
                   batches, batch_i, calls_made, all_records, records, printed>>
    /\ UNCHANGED <<chunkVars, quotaVars, curatorVars>>

\* Lines 91-103: nothing to save, or write the combined frame.
Merge ==
    /\ pc = "merge"
    /\ IF all_records = <<>>
       THEN /\ printed' = printed \cup {"no_new"}
            /\ UNCHANGED pred_csv
       ELSE /\ pred_csv' = [exists |-> TRUE, rows |-> combined(pred_csv, all_records)]
            /\ printed' = printed \cup {"saved"}
    /\ pc' = "exit"
    /\ UNCHANGED <<runs, BATCH_SIZE, DAILY_CALL_CAP, pred_jsonl, todo,
                   batches, batch_i, calls_made, all_records, records>>
    /\ UNCHANGED <<chunkVars, quotaVars, curatorVars>>

Next ==
    \/ StartRun
    \/ LoopBreak
    \/ LoopEnd
    \/ LabelBatch
    \/ LabelRaises
    \/ Interrupt
    \/ Merge

Spec == Init /\ [][Next]_vars

\* ------------------------------------------------------- chunked() alone
ChunkItems == {"a", "b"}

InitChunk ==
    /\ InitMain({1}, {0})
    /\ seq \in SeqsUpTo(ChunkItems, MaxSeqLen)
    /\ n \in (0 - MaxChunkSize)..MaxChunkSize
    /\ chunk_out = [status |-> "none", groups |-> <<>>]
    /\ QuotaIdle
    /\ CuratorIdle

\* list(chunked(seq, n)) for n # 0.
ChunkReturns ==
    /\ chunk_out.status = "none"
    /\ n # 0
    /\ chunk_out' = [status |-> "returned", groups |-> chunked(seq, n)]
    /\ UNCHANGED <<seq, n>>
    /\ UNCHANGED <<mainVars, quotaVars, curatorVars>>

\* range(0, len(seq), 0) raises ValueError: range() arg 3 must not be zero.
ChunkRaises ==
    /\ chunk_out.status = "none"
    /\ n = 0
    /\ chunk_out' = [status |-> "ValueError", groups |-> <<>>]
    /\ UNCHANGED <<seq, n>>
    /\ UNCHANGED <<mainVars, quotaVars, curatorVars>>

NextChunk ==
    \/ ChunkReturns
    \/ ChunkRaises

SpecChunk == InitChunk /\ [][NextChunk]_vars

\* ------------------------------------- _compute_priority_targets() alone
\* The priority values of the population, in sorted() order.
PriorityOrder == <<"A", "B", "C">>
IndexOf(p) == CHOOSE i \in DOMAIN PriorityOrder : PriorityOrder[i] = p

\* priorities = sorted(counts.keys())
SortedKeys(c) == SelectSeq(PriorityOrder, LAMBDA p : p \in DOMAIN c)

RECURSIVE SumOver(_, _)
SumOver(f, S) ==
    IF S = {} THEN 0
    ELSE LET p == CHOOSE x \in S : TRUE IN f[p] + SumOver(f, S \ {p})
\* sum(counts.values())
SumOf(f) == SumOver(f, DOMAIN f)

\* A mutant of EqualSplit: every slot goes to the first priority.
EqualSplitAllFirst(priorities, total) ==
    [p \in {priorities[i] : i \in DOMAIN priorities} |->
        IF p = priorities[1] THEN total ELSE 0]
\* Lines 38-45: the near-equal split, one extra unit to the first `remainder`
\* priorities.
EqualSplit(priorities, total) ==
    LET base == total \div Len(priorities)
        remainder == total % Len(priorities)
    IN  [p \in {priorities[i] : i \in DOMAIN priorities} |->
            LET i == CHOOSE j \in DOMAIN priorities : priorities[j] = p
            IN  base + (IF i - 1 < remainder THEN 1 ELSE 0)]

\* Lines 48-52: cap by availability; the deficit is what could not be assigned.
Capped(c, t) == [p \in DOMAIN t |-> Min(t[p], c[p])]
Deficit(c, t) == SumOf([p \in DOMAIN t |-> IF t[p] > c[p] THEN t[p] - c[p] ELSE 0])

\* sorted(priorities, key=lambda x: (targets[x], x))
SortedByTarget(t) ==
    LET Before(q, p) == t[q] < t[p] \/ (t[q] = t[p] /\ IndexOf(q) < IndexOf(p))
        Rank(p) == 1 + Cardinality({q \in DOMAIN t : Before(q, p)})
    IN  [i \in 1..Cardinality(DOMAIN t) |-> CHOOSE p \in DOMAIN t : Rank(p) = i]

\* Lines 57-65: one pass of the for loop from position i of order.
RECURSIVE ReassignPass(_, _, _, _, _, _)
ReassignPass(c, order, i, t, deficit, progressed) ==
    IF i > Len(order) THEN [targets |-> t, deficit |-> deficit, progressed |-> progressed]
    ELSE LET p == order[i]
             spare == c[p] - t[p]
         IN  IF spare <= 0 THEN ReassignPass(c, order, i + 1, t, deficit, progressed)
             ELSE IF deficit - 1 = 0
                  THEN [targets |-> [t EXCEPT ![p] = @ + 1], deficit |-> 0,
                        progressed |-> TRUE]
                  ELSE ReassignPass(c, order, i + 1, [t EXCEPT ![p] = @ + 1],
                                    deficit - 1, TRUE)

\* A mutant of Reassign: the leftover slots are never reassigned.
ReassignNever(c, t, deficit) == t
\* Lines 55-67: while deficit > 0, pass after pass until one makes no progress.
RECURSIVE Reassign(_, _, _)
Reassign(c, t, deficit) ==
    IF deficit <= 0 THEN t
    ELSE LET r == ReassignPass(c, SortedByTarget(t), 1, t, deficit, FALSE)
         IN  IF ~r.progressed THEN r.targets ELSE Reassign(c, r.targets, r.deficit)

\* _compute_priority_targets, lines 32-69, on counts = value_counts().to_dict().
TargetsFromCounts(c, total) ==
    LET priorities == SortedKeys(c)
    IN  IF priorities = <<>> THEN <<>>
        ELSE LET capped_n == Min(total, SumOf(c))
                 split == EqualSplit(priorities, capped_n)
             IN  Reassign(c, Capped(c, split), Deficit(c, split))

\* The availability counts of the two documented cases, with n = 30.
ExampleCounts == { ("A" :> 500 @@ "B" :> 500), ("A" :> 5 @@ "B" :> 995) }
ExampleN == 30

\* value_counts() holds the priorities that occur, each with a count >= 1.
CountMaps ==
    UNION { [P -> 1..MaxCount] : P \in SUBSET {PriorityOrder[i] : i \in DOMAIN PriorityOrder} }

InitQuota ==
    /\ InitMain({1}, {0})
    /\ ChunkIdle
    /\ CuratorIdle
    /\ \/ counts \in CountMaps /\ quota_n \in 0..MaxQuotaN
       \/ counts \in ExampleCounts /\ quota_n = ExampleN
    /\ targets_out = [status |-> "none", targets |-> <<>>]

QuotaReturns ==
    /\ targets_out.status = "none"
    /\ targets_out' = [status |-> "returned", targets |-> TargetsFromCounts(counts, quota_n)]
    /\ UNCHANGED <<counts, quota_n>>
    /\ UNCHANGED <<mainVars, chunkVars, curatorVars>>

NextQuota == QuotaReturns

SpecQuota == InitQuota /\ [][NextQuota]_vars

\* ------------------------------------------------- build_example_set()
\* A row of the joined frame: the comment and the three AI columns travel with
\* the row and are left out. The two resident columns are stripped strings
\* (main(), lines 188-193).
CategoryValues == {"x", "y"}
JoinedRow(i, p, c) ==
    [id |-> i, resident_selected_priority |-> p, resident_selected_category |-> c]

\* df.sample(frac=1, random_state=seed).reset_index(drop=True): a permutation
\* fixed by the seed and the length. The rows given to it range over every
\* order, so one fixed permutation stands for it: the reversal.
Shuffled(rows) == [i \in 1..Len(rows) |-> rows[Len(rows) + 1 - i]]

\* df[priority_col].value_counts().to_dict()
CountsOf(rows) ==
    [p \in {rows[i].resident_selected_priority : i \in DOMAIN rows} |->
        Cardinality({i \in DOMAIN rows : rows[i].resident_selected_priority = p})]

\* _compute_priority_targets(df, n)
compute_priority_targets(rows, total) == TargetsFromCounts(CountsOf(rows), total)

\* sel lists the positions in rng (_order + 1) of the rows picked so far.
SelectedIds(rng, sel) == { rng[sel[k]].id : k \in DOMAIN sel }
GlobalCatCount(rng, sel, c) ==
    Cardinality({k \in DOMAIN sel : rng[sel[k]].resident_selected_category = c})
PrioCatCount(rng, sel, p, c) ==
    Cardinality({k \in DOMAIN sel :
        /\ rng[sel[k]].resident_selected_priority = p
        /\ rng[sel[k]].resident_selected_category = c})

\* A mutant of Candidates: rows already selected stay candidates.
CandidatesWithSelected(rng, sel, p) ==
    {i \in DOMAIN rng : rng[i].resident_selected_priority = p}
\* Lines 100-103: the rows of this priority whose id is not selected.
Candidates(rng, sel, p) ==
    {i \in DOMAIN rng :
        /\ rng[i].resident_selected_priority = p
        /\ rng[i].id \notin SelectedIds(rng, sel)}

LexLess(a, b) ==
    \E k \in DOMAIN a : a[k] < b[k] /\ \A j \in 1..(k - 1) : a[j] = b[j]

\* Lines 112-124: sort_values([_unseen_rank, _global_cat_rank, _prio_cat_rank,
\* _order]).iloc[0]
PickKey(rng, sel, p, i) ==
    LET c == rng[i].resident_selected_category
    IN  <<IF GlobalCatCount(rng, sel, c) = 0 THEN 0 ELSE 1,
          GlobalCatCount(rng, sel, c),
          PrioCatCount(rng, sel, p, c),
          i>>
BestCandidate(rng, sel, p, cands) ==
    CHOOSE i \in cands :
        \A j \in cands \ {i} : LexLess(PickKey(rng, sel, p, i), PickKey(rng, sel, p, j))

\* Lines 96-135: one round over the priorities, from position k.
RECURSIVE RoundPass(_, _, _, _, _, _)
RoundPass(rng, priorities, k, sel, remaining, made_pick) ==
    IF k > Len(priorities)
    THEN [sel |-> sel, remaining |-> remaining, made_pick |-> made_pick]
    ELSE LET p == priorities[k]
             cands == Candidates(rng, sel, p)
         IN  IF remaining[p] <= 0
             THEN RoundPass(rng, priorities, k + 1, sel, remaining, made_pick)
             ELSE IF cands = {}
             THEN RoundPass(rng, priorities, k + 1, sel,
                            [remaining EXCEPT ![p] = 0], made_pick)
             ELSE RoundPass(rng, priorities, k + 1,
                            Append(sel, BestCandidate(rng, sel, p, cands)),
                            [remaining EXCEPT ![p] = @ - 1], TRUE)

\* Lines 94-138: rounds while some quota remains and the last round picked.
RECURSIVE RoundRobin(_, _, _, _)
RoundRobin(rng, priorities, sel, remaining) ==
    IF SumOf(remaining) <= 0 THEN sel
    ELSE LET r == RoundPass(rng, priorities, 1, sel, remaining, FALSE)
         IN  IF ~r.made_pick THEN r.sel
             ELSE RoundRobin(rng, priorities, r.sel, r.remaining)

\* Lines 143-153: the first `need` unselected rows by (_global_cat_rank, _order),
\* the ranks taken from the counts after the rounds.
RECURSIVE TopUp(_, _, _, _)
TopUp(rng, sel, rest, need) ==
    IF need <= 0 \/ rest = {} THEN <<>>
    ELSE LET Key(i) == <<GlobalCatCount(rng, sel, rng[i].resident_selected_category), i>>
             first == CHOOSE i \in rest : \A j \in rest \ {i} : LexLess(Key(i), Key(j))
         IN  <<first>> \o TopUp(rng, sel, rest \ {first}, need - 1)

\* build_example_set(df, n), lines 76-156.
build_example_set(rows, wanted) ==
    IF rows = <<>> THEN rows
    ELSE LET total == Min(wanted, Len(rows))
             rng == Shuffled(rows)
             targets == compute_priority_targets(rng, total)
             priorities == SortedKeys(targets)
             sel == RoundRobin(rng, priorities, <<>>, targets)
             rest == {i \in DOMAIN rng : rng[i].id \notin SelectedIds(rng, sel)}
             all == IF Len(sel) < total
                    THEN sel \o TopUp(rng, sel, rest, total - Len(sel))
                    ELSE sel
             picked == Shuffled([k \in 1..Len(all) |-> rng[all[k]]])
         IN  SubSeq(picked, 1, Min(total, Len(picked)))

\* -------------------------------------------- build_demo_examples.main()
\* Lines 214-217: the sample rows whose id has a prediction, in the sample's
\* order, the first row of each id.
JoinedPopulation(sample, pred_ids) ==
    drop_duplicates(SelectSeq(sample, LAMBDA r : r.id \in pred_ids))

\* A mutant of TooFewRows: the size is never tested.
TooFewRowsNever(merged, wanted) == FALSE
\* if len(merged) < N_EXAMPLES
TooFewRows(merged, wanted) == Len(merged) < wanted

\* The sample CSV: up to MaxPop rows with ids 1, 2, ... in file order.
SampleFrames ==
    UNION { [1..k -> {PriorityOrder[i] : i \in DOMAIN PriorityOrder} \X CategoryValues] :
              k \in 0..MaxPop }

\* Both input files exist (lines 160-163 raise otherwise) and hold the needed
\* columns; no demo file yet.
InitCurator ==
    /\ InitMain({1}, {0})
    /\ ChunkIdle
    /\ QuotaIdle
    /\ \E f \in SampleFrames :
         sample_df = [i \in DOMAIN f |-> JoinedRow(i, f[i][1], f[i][2])]
    /\ predictions_ids \in SUBSET (1..MaxPop)
    /\ N_EXAMPLES \in 1..MaxExamples
    /\ demo_pc = "start"
    /\ demo_csv = NoFile

\* Lines 218-222: too few joined rows, ValueError, nothing written.
CuratorRaises ==
    /\ demo_pc = "start"
    /\ TooFewRows(JoinedPopulation(sample_df, predictions_ids), N_EXAMPLES)
    /\ demo_pc' = "raised"
    /\ UNCHANGED <<sample_df, predictions_ids, N_EXAMPLES, demo_csv>>
    /\ UNCHANGED <<mainVars, chunkVars, quotaVars>>

\* Lines 224-239: build the example set and write demo_examples.csv.
CuratorSaves ==
    /\ demo_pc = "start"
    /\ ~TooFewRows(JoinedPopulation(sample_df, predictions_ids), N_EXAMPLES)
    /\ demo_csv' = [exists |-> TRUE,
                    rows |-> build_example_set(
                                 JoinedPopulation(sample_df, predictions_ids), N_EXAMPLES)]
    /\ demo_pc' = "saved"
    /\ UNCHANGED <<sample_df, predictions_ids, N_EXAMPLES>>
    /\ UNCHANGED <<mainVars, chunkVars, quotaVars>>

NextCurator ==
    \/ CuratorRaises
    \/ CuratorSaves

SpecCurator == InitCurator /\ [][NextCurator]_vars

\* ----------------------------------------------------------------- claims
Max(S) == CHOOSE x \in S : \A y \in S : y <= x

RECURSIVE Flatten(_)
Flatten(groups) ==
    IF groups = <<>> THEN <<>> ELSE Head(groups) \o Flatten(Tail(groups))

\* The value of the most recently appended line of predictions.jsonl for id.
LastLogged(id) ==
    pred_jsonl[Max({i \in DOMAIN pred_jsonl : pred_jsonl[i].id = id})]

\* The run has written predictions.csv.
Merged == pc = "exit" /\ "saved" \in printed

\* The run ended normally, merged, and every pending id received a result.
CompletedFully == Merged /\ IdsOf(todo) \subseteq IdsOf(all_records)

\* C1: when a run has computed its pending rows (and has not called the
\* classifier yet), no id with a result already appended to predictions.jsonl,
\* in particular by a run that ended before its merge, is pending.
C1_ResumeSkipsAppended ==
    (pc = "loop" /\ calls_made = 0) => IdsOf(todo) \cap IdsOf(pred_jsonl) = {}

\* C2: the run that follows a fully completed run finds nothing pending and
\* returns at once: no classifier call, nothing appended to the log, the
\* snapshot unchanged.
C2_SecondRunIsNoOp ==
    [][CompletedFully =>
         /\ pc' = "exit"
         /\ printed' = {"already_all"}
         /\ todo' = <<>>
         /\ calls_made' = 0
         /\ pred_jsonl' = pred_jsonl
         /\ pred_csv' = pred_csv]_vars

\* C2's case: a second run that returned at once over a snapshot holding every
\* source id, written by the first run.
C2_Witness ==
    /\ runs = 2
    /\ pc = "exit"
    /\ printed = {"already_all"}
    /\ pred_csv.exists
    /\ IdsOf(pred_csv.rows) = IdsOf(df)
    /\ Len(pred_jsonl) >= NumRecords

\* C3: calls_made never exceeds the cap; a run whose pending rows need more
\* batches than the cap leaves the loop after exactly DAILY_CALL_CAP calls with
\* the cap message (not the nothing-pending one), and its merge puts every id
\* accumulated in those calls into the snapshot.
C3_QuotaEnforced ==
    /\ calls_made <= DAILY_CALL_CAP
    /\ (pc \in {"merge", "exit"} /\ Len(batches) > DAILY_CALL_CAP) =>
         /\ calls_made = DAILY_CALL_CAP
         /\ "cap_reached" \in printed
         /\ "already_all" \notin printed
    /\ (pc = "exit" /\ Len(batches) > DAILY_CALL_CAP) =>
         /\ IdsOf(all_records) \subseteq IdsOf(pred_csv.rows)
         /\ all_records # <<>> => "saved" \in printed

\* C3's case: a run stopped by a cap of at least one call has merged.
C3_Witness ==
    /\ pc = "exit"
    /\ DAILY_CALL_CAP >= 1
    /\ Len(batches) > DAILY_CALL_CAP
    /\ calls_made = DAILY_CALL_CAP
    /\ "cap_reached" \in printed
    /\ "saved" \in printed

\* C4: after a run's merge the ids of the snapshot are exactly the ids for which
\* an accepted classifier result has been received (each is a line of the log).
C4_SnapshotIdsAreReceivedIds ==
    Merged => IdsOf(pred_csv.rows) = IdsOf(pred_jsonl)

\* C5: merging the batch just merged once more leaves the snapshot as it is.
C5_MergeIdempotent ==
    Merged => combined(pred_csv, all_records) = pred_csv.rows

\* C6: after a merge every snapshot row holds the value of the most recently
\* appended log line for its id.
C6_LastWriteWins ==
    Merged =>
        \A i \in DOMAIN pred_csv.rows :
            pred_csv.rows[i].id \in IdsOf(pred_jsonl)
                => pred_csv.rows[i] = LastLogged(pred_csv.rows[i].id)

\* C7: the snapshot holds at most one row per id.
C7_OneRowPerId ==
    \A i, j \in DOMAIN pred_csv.rows :
        pred_csv.rows[i].id = pred_csv.rows[j].id => i = j

\* C8: every response label_one_batch returned without raising (and whose
\* results were appended) holds exactly one result per submitted id.
C8_OneResultPerSubmittedId ==
    calls_made > 0 =>
        /\ Len(records) = Len(batches[calls_made])
        /\ IdsOf(records) = IdsOf(batches[calls_made])

\* C9: every label result in the log and in the snapshot has its Priority and
\* its Service_Category in the allowed sets computed from the source rows.
C9_SchemaEnforced ==
    /\ \A i \in DOMAIN pred_jsonl :
         /\ pred_jsonl[i].Priority \in allowed_priorities
         /\ pred_jsonl[i].Service_Category \in allowed_categories
    /\ \A i \in DOMAIN pred_csv.rows :
         /\ pred_csv.rows[i].Priority \in allowed_priorities
         /\ pred_csv.rows[i].Service_Category \in allowed_categories

\* C10: for a positive size, chunked yields ceil(len/size) groups whose
\* concatenation is the input and whose groups, but possibly the last, have
\* exactly size elements.
C10_ChunkedCorrect ==
    (chunk_out.status = "returned" /\ n > 0) =>
        LET groups == chunk_out.groups
        IN  /\ Len(groups) = (Len(seq) + n - 1) \div n
            /\ Flatten(groups) = seq
            /\ \A i \in 1..(Len(groups) - 1) : Len(groups[i]) = n

\* C10's case: several groups, the last one shorter.
C10_Witness ==
    /\ chunk_out.status = "returned"
    /\ n > 1
    /\ Len(seq) > n
    /\ Len(seq) % n # 0
    /\ Len(chunk_out.groups) > 1

\* C11: chunked called with a size <= 0 fails with an error for every input
\* list; it never returns groups.
C11_NonPositiveSizeFails ==
    (n <= 0 /\ chunk_out.status # "none") => chunk_out.status = "ValueError"

\* C12: the quotas returned for any availability counts and any n never exceed
\* the rows available for a priority and sum to exactly min(n, total rows);
\* {A:500, B:500} with n = 30 gives {A:15, B:15}, {A:5, B:995} gives {A:5, B:25}.
C12_QuotasLoseNoSlot ==
    targets_out.status = "returned" =>
        LET t == targets_out.targets
        IN  /\ DOMAIN t = DOMAIN counts
            /\ \A p \in DOMAIN t : t[p] >= 0 /\ t[p] <= counts[p]
            /\ SumOf(t) = Min(quota_n, SumOf(counts))
            /\ (counts = ("A" :> 500 @@ "B" :> 500) /\ quota_n = 30)
                 => t = ("A" :> 15 @@ "B" :> 15)
            /\ (counts = ("A" :> 5 @@ "B" :> 995) /\ quota_n = 30)
                 => t = ("A" :> 5 @@ "B" :> 25)

\* C12's case: a quota was capped at availability and its shortfall reassigned.
C12_Witness ==
    /\ targets_out.status = "returned"
    /\ counts = ("A" :> 5 @@ "B" :> 995)
    /\ quota_n = 30
    /\ targets_out.targets["B"] = 25

\* The rows main() gives to build_example_set, and how many of a priority a
\* frame holds.
Population == JoinedPopulation(sample_df, predictions_ids)
RowsOfPriority(rows, p) ==
    Cardinality({i \in DOMAIN rows : rows[i].resident_selected_priority = p})

\* C13: the example set built from a population with unique ids and at least
\* N rows has exactly N rows, each a row of the population, no id twice.
C13_ExactlyNDistinctRows ==
    demo_pc = "saved" =>
        LET out == demo_csv.rows
        IN  /\ Len(out) = N_EXAMPLES
            /\ \A k \in DOMAIN out : \E j \in DOMAIN Population : Population[j] = out[k]
            /\ \A j, k \in DOMAIN out : out[j].id = out[k].id => j = k

\* C13's case: a proper subset of a population with two priorities was chosen.
C13_Witness ==
    /\ demo_pc = "saved"
    /\ N_EXAMPLES >= 2
    /\ Len(Population) > N_EXAMPLES
    /\ Cardinality(DOMAIN CountsOf(Population)) >= 2
    /\ Len(demo_csv.rows) = N_EXAMPLES

\* C14: with fewer joined rows than N the curator ends with an error and no
\* demo file; a demo file never holds fewer than N rows.
C14_InsufficientDataIsFatal ==
    /\ (Len(Population) < N_EXAMPLES /\ demo_pc # "start")
         => (demo_pc = "raised" /\ ~demo_csv.exists)
    /\ demo_csv.exists => Len(demo_csv.rows) >= N_EXAMPLES

\* C14's case: the sample alone has N rows, the join has some but too few.
C14_Witness ==
    /\ demo_pc = "raised"
    /\ Len(sample_df) >= N_EXAMPLES
    /\ Len(Population) > 0
    /\ Len(Population) < N_EXAMPLES
    /\ ~demo_csv.exists

\* C15: in the example set every priority that still has unselected rows has at
\* least (the largest per-priority count) - 1 rows, and each priority's count
\* is the quota computed for it.
C15_PriorityBalance ==
    demo_pc = "saved" =>
        LET out == demo_csv.rows
            present == DOMAIN CountsOf(Population)
            quotas == compute_priority_targets(Population, N_EXAMPLES)
            largest == Max({RowsOfPriority(out, p) : p \in present})
        IN  \A p \in present :
                /\ RowsOfPriority(out, p) = quotas[p]
                /\ RowsOfPriority(Population, p) > RowsOfPriority(out, p)
                     => RowsOfPriority(out, p) >= largest - 1

\* C15's case: a priority is exhausted below its share of the equal split and
\* has fewer rows than another priority, which keeps unselected rows.
C15_Witness ==
    /\ demo_pc = "saved"
    /\ \E p, q \in DOMAIN CountsOf(Population) :
         /\ RowsOfPriority(demo_csv.rows, p) = RowsOfPriority(Population, p)
         /\ RowsOfPriority(demo_csv.rows, p) < RowsOfPriority(demo_csv.rows, q)
         /\ RowsOfPriority(demo_csv.rows, p)
              < EqualSplit(SortedKeys(CountsOf(Population)), N_EXAMPLES)[p]
         /\ RowsOfPriority(Population, q) > RowsOfPriority(demo_csv.rows, q)

====
